---- MODULE Spec2Model ----
(***************************************************************************)
(* Model of slice2d (src/src/lib.rs): Slice2D / Slice2DMut, two            *)
(* dimensional views over a borrowed one dimensional slice, with checked   *)
(* row lookup (get / get_mut), trusted row lookup (Index / IndexMut), row  *)
(* iteration (Iterator::next), downgrade, and the constructors of          *)
(* Slice2DExt.                                                             *)
(*                                                                         *)
(* A slice `&[T]` is a window [off, off + n) into the backing buffer buf.  *)
(* An Option is a sequence of length 0 (None) or 1 (Some).                 *)
(* usize is modelled at UsizeBits bits, the smallest width Rust allows.    *)
(***************************************************************************)
EXTENDS Integers, Sequences, FiniteSets

\* ---- bounds of the model ----
MaxBuf == 5        \* longest backing buffer
MaxLen == 2        \* largest row length passed to slice2d
MaxStride == 3     \* largest stride passed to slice2d
MaxX == 3          \* largest row count passed to get_slice2d
MaxIndex == 3      \* largest row index passed to get / index
MaxNexts == 3      \* calls to next() that are counted exactly

\* ---- usize ----
UsizeBits == 16
Modulus == 2 ^ UsizeBits

Lens == 0..MaxLen
Strides == 0..MaxStride
Xs == 0..MaxX
Indices == 0..MaxIndex
WriteVals == {0}
\* indices and dimensions near the top of usize
WideIndices == {Modulus \div 2, Modulus - 1}

VARIABLES
    buf,              \* the backing buffer the views borrow
    rv,               \* Option<Slice2D>: the immutable view in use
    mv,               \* Option<Slice2DMut>: the mutable view in use
    down,             \* Option<Slice2D>: the view returned by downgrade()
    base,             \* Option<Slice2D>: copy of rv taken at construction
    nexts,            \* calls to next() on rv since construction: exact up to
                      \* MaxNexts, then alternating MaxNexts + 1, MaxNexts + 2
    exhausted,        \* a call to next() on rv has returned None
    call,             \* the last call: operation and arguments
    out,              \* what the last call returned
    halted,           \* a panic has stopped execution
    overflow_checks   \* build profile: overflow panics (debug) or wraps

vars == <<buf, rv, mv, down, base, nexts, exhausted, call, out, halted,
          overflow_checks>>

\* ---- Option ----
None == <<>>
Some(v) == <<v>>
IsSome(o) == o # <<>>
Unwrap(o) == o[1]

\* ---- outcomes of a row access ----
OutNone == [kind |-> "None", lo |-> 0, row |-> <<>>]
OutPanic == [kind |-> "Panic", lo |-> 0, row |-> <<>>]
\* the elements of buf in the window s
Elems(s) == [j \in 1..s.n |-> buf[s.off + j]]
OutSome(s) == [kind |-> "Some", lo |-> s.off, row |-> Elems(s)]
OutRow(o) == IF IsSome(o) THEN OutSome(Unwrap(o)) ELSE OutNone
\* the trusted path: a failed range check is a panic
OutRowOrPanic(o) == IF IsSome(o) THEN OutSome(Unwrap(o)) ELSE OutPanic

\* ---- usize arithmetic: ovf tells whether the true result left usize ----
UsizeMul(a, b) == [ovf |-> a * b >= Modulus, val |-> (a * b) % Modulus]
UsizeAdd(a, b) == [ovf |-> a + b >= Modulus, val |-> (a + b) % Modulus]

\* ---- slices ----
WholeSlice == [off |-> 0, n |-> Len(buf)]
EmptySlice == [off |-> 0, n |-> 0]
\* <[T]>::get(start..end)
SliceGetRange(s, start, end) ==
    IF start > end \/ end > s.n
    THEN None
    ELSE Some([off |-> s.off + start, n |-> end - start])
\* <[T]>::get(start..)
SliceGetFrom(s, start) ==
    IF start > s.n
    THEN None
    ELSE Some([off |-> s.off + start, n |-> s.n - start])

\* ---- the addressing formula: origin..origin + len of row `index` ----
\* Some(<<origin, end>>), or None when the build panics on overflow
RowRange(stride, len, index) ==
    LET m == UsizeMul(index, stride)
        a == UsizeAdd(m.val, len)
    IN  IF overflow_checks /\ (m.ovf \/ a.ovf)
        THEN None
        ELSE Some(<<m.val, a.val>>)

\* ---- Slice2D ----
\* slip: the index is not scaled by the stride
Slice2D_get_unscaled(v, index) ==
    LET r == RowRange(1, v.len, index)
    IN  IF ~IsSome(r) THEN OutPanic
        ELSE OutRow(SliceGetRange(v.slice, Unwrap(r)[1], Unwrap(r)[2]))

Slice2D_get(v, index) ==
    LET r == RowRange(v.stride, v.len, index)
    IN  IF ~IsSome(r) THEN OutPanic
        ELSE OutRow(SliceGetRange(v.slice, Unwrap(r)[1], Unwrap(r)[2]))

\* slip: a failed range check is reported as absence, not as a panic
Slice2D_index_lenient(v, index) ==
    LET r == RowRange(v.stride, v.len, index)
    IN  IF ~IsSome(r) THEN OutPanic
        ELSE OutRow(SliceGetRange(v.slice, Unwrap(r)[1], Unwrap(r)[2]))

Slice2D_index(v, index) ==
    LET r == RowRange(v.stride, v.len, index)
    IN  IF ~IsSome(r) THEN OutPanic
        ELSE OutRowOrPanic(SliceGetRange(v.slice, Unwrap(r)[1], Unwrap(r)[2]))

\* next(): the row it returns, and the view it leaves behind
Slice2D_next_result(v) == OutRow(SliceGetRange(v.slice, 0, v.len))
\* slip: the cursor moves by the row length, not by the stride
Slice2D_next_advance_by_len(v) ==
    LET rest == SliceGetFrom(v.slice, v.len)
    IN  [v EXCEPT !.slice = IF IsSome(rest) THEN Unwrap(rest) ELSE EmptySlice]

\* slip: iteration over a private cursor, the stored slice stays put
Slice2D_next_advance_keep(v) == v

\* slip: a stride past the end leaves the cursor where it is
Slice2D_next_advance_unclamped(v) ==
    LET rest == SliceGetFrom(v.slice, v.stride)
    IN  [v EXCEPT !.slice = IF IsSome(rest) THEN Unwrap(rest) ELSE v.slice]

Slice2D_next_advance(v) ==
    LET rest == SliceGetFrom(v.slice, v.stride)
    IN  [v EXCEPT !.slice = IF IsSome(rest) THEN Unwrap(rest) ELSE EmptySlice]

\* ---- Slice2DMut ----
\* slip: stride and row length change places
Slice2DMut_downgrade_swapped(m) ==
    [stride |-> m.len, len |-> m.stride, slice |-> m.slice]

Slice2DMut_downgrade(m) ==
    [stride |-> m.stride, len |-> m.len, slice |-> m.slice]

\* slip: rows are taken to be contiguous, the stride is ignored
Slice2DMut_get_by_len(m, index) ==
    LET r == RowRange(m.len, m.len, index)
    IN  IF ~IsSome(r) THEN OutPanic
        ELSE OutRow(SliceGetRange(m.slice, Unwrap(r)[1], Unwrap(r)[2]))

Slice2DMut_get(m, index) ==
    LET r == RowRange(m.stride, m.len, index)
    IN  IF ~IsSome(r) THEN OutPanic
        ELSE OutRow(SliceGetRange(m.slice, Unwrap(r)[1], Unwrap(r)[2]))

\* slip: rows are taken to be contiguous, the stride is ignored
Slice2DMut_get_mut_by_len(m, index) ==
    LET r == RowRange(m.len, m.len, index)
    IN  IF ~IsSome(r) THEN OutPanic
        ELSE OutRow(SliceGetRange(m.slice, Unwrap(r)[1], Unwrap(r)[2]))

Slice2DMut_get_mut(m, index) ==
    LET r == RowRange(m.stride, m.len, index)
    IN  IF ~IsSome(r) THEN OutPanic
        ELSE OutRow(SliceGetRange(m.slice, Unwrap(r)[1], Unwrap(r)[2]))

Slice2DMut_index(m, index) ==
    LET r == RowRange(m.stride, m.len, index)
    IN  IF ~IsSome(r) THEN OutPanic
        ELSE OutRowOrPanic(SliceGetRange(m.slice, Unwrap(r)[1], Unwrap(r)[2]))

Slice2DMut_index_mut(m, index) ==
    LET r == RowRange(m.stride, m.len, index)
    IN  IF ~IsSome(r) THEN OutPanic
        ELSE OutRowOrPanic(SliceGetRange(m.slice, Unwrap(r)[1], Unwrap(r)[2]))

\* ---- Slice2DExt for [T] ----
slice2d(len, stride) == [stride |-> stride, len |-> len, slice |-> WholeSlice]
slice2d_mut(len, stride) == [stride |-> stride, len |-> len, slice |-> WholeSlice]

\* Some with the view, None, or Panic when the build panics on overflow
\* slip: the row length is taken from the first dimension
get_slice2d_len_x(x, y) ==
    LET m == UsizeMul(x, y)
    IN  IF overflow_checks /\ m.ovf THEN [kind |-> "Panic", view |-> None]
        ELSE IF Len(buf) # m.val THEN [kind |-> "None", view |-> None]
        ELSE [kind |-> "Some",
              view |-> Some([stride |-> x, len |-> x, slice |-> WholeSlice])]

get_slice2d(x, y) ==
    LET m == UsizeMul(x, y)
    IN  IF overflow_checks /\ m.ovf THEN [kind |-> "Panic", view |-> None]
        ELSE IF Len(buf) # m.val THEN [kind |-> "None", view |-> None]
        ELSE [kind |-> "Some",
              view |-> Some([stride |-> y, len |-> y, slice |-> WholeSlice])]

get_slice2d_mut(x, y) ==
    LET m == UsizeMul(x, y)
    IN  IF overflow_checks /\ m.ovf THEN [kind |-> "Panic", view |-> None]
        ELSE IF Len(buf) # m.val THEN [kind |-> "None", view |-> None]
        ELSE [kind |-> "Some",
              view |-> Some([stride |-> y, len |-> y, slice |-> WholeSlice])]

\* ---- state machine ----
\* a buffer and no view yet, in a build of either profile
InitWide ==
    /\ buf \in {[j \in 1..n |-> j] : n \in 0..MaxBuf}
    /\ rv = None
    /\ mv = None
    /\ down = None
    /\ base = None
    /\ nexts = 0
    /\ exhausted = FALSE
    /\ call = [op |-> "init", a |-> 0, b |-> 0, c |-> 0]
    /\ out = OutNone
    /\ halted = FALSE
    /\ overflow_checks \in BOOLEAN

\* the dev / test profile. No product of the arguments of Next leaves usize,
\* so the release profile takes the same steps.
Init == InitWide /\ overflow_checks

\* every call records its name, arguments and outcome
Returns(op, a, b, c, o) ==
    /\ call' = [op |-> op, a |-> a, b |-> b, c |-> c]
    /\ out' = o
    /\ halted' = (o.kind = "Panic")

\* the caller holds one view at a time
NoViewInUse == ~IsSome(rv) /\ ~IsSome(mv)

NewRead(view) ==
    /\ rv' = view
    /\ base' = view
    /\ mv' = None
    /\ down' = None
    /\ nexts' = 0
    /\ exhausted' = FALSE

NewWrite(view) ==
    /\ mv' = view
    /\ rv' = None
    /\ base' = None
    /\ down' = None
    /\ nexts' = 0
    /\ exhausted' = FALSE

Do_slice2d(len, stride) ==
    /\ ~halted
    /\ NoViewInUse
    /\ NewRead(Some(slice2d(len, stride)))
    /\ Returns("slice2d", len, stride, 0, [OutNone EXCEPT !.kind = "Some"])
    /\ UNCHANGED <<buf, overflow_checks>>

Do_slice2d_mut(len, stride) ==
    /\ ~halted
    /\ NoViewInUse
    /\ NewWrite(Some(slice2d_mut(len, stride)))
    /\ Returns("slice2d_mut", len, stride, 0, [OutNone EXCEPT !.kind = "Some"])
    /\ UNCHANGED <<buf, overflow_checks>>

Do_get_slice2d(x, y) ==
    /\ ~halted
    /\ NoViewInUse
    /\ LET r == get_slice2d(x, y)
       IN  /\ NewRead(r.view)
           /\ Returns("get_slice2d", x, y, 0, [OutNone EXCEPT !.kind = r.kind])
    /\ UNCHANGED <<buf, overflow_checks>>

Do_get_slice2d_mut(x, y) ==
    /\ ~halted
    /\ NoViewInUse
    /\ LET r == get_slice2d_mut(x, y)
       IN  /\ NewWrite(r.view)
           /\ Returns("get_slice2d_mut", x, y, 0, [OutNone EXCEPT !.kind = r.kind])
    /\ UNCHANGED <<buf, overflow_checks>>

\* the view in use goes out of scope; it owns nothing
Do_drop ==
    /\ ~halted
    /\ ~NoViewInUse
    /\ rv' = None
    /\ mv' = None
    /\ down' = None
    /\ base' = None
    /\ nexts' = 0
    /\ exhausted' = FALSE
    /\ Returns("drop", 0, 0, 0, OutNone)
    /\ UNCHANGED <<buf, overflow_checks>>

\* ---- reads through the immutable view ----
Do_get(i) ==
    /\ ~halted
    /\ IsSome(rv)
    /\ Returns("get", i, 0, 0, Slice2D_get(Unwrap(rv), i))
    /\ UNCHANGED <<buf, rv, mv, down, base, nexts, exhausted, overflow_checks>>

Do_index(i) ==
    /\ ~halted
    /\ IsSome(rv)
    /\ Returns("index", i, 0, 0, Slice2D_index(Unwrap(rv), i))
    /\ UNCHANGED <<buf, rv, mv, down, base, nexts, exhausted, overflow_checks>>

Do_next ==
    /\ ~halted
    /\ IsSome(rv)
    /\ LET r == Slice2D_next_result(Unwrap(rv))
       IN  /\ Returns("next", 0, 0, 0, r)
           /\ exhausted' = (exhausted \/ r.kind = "None")
    /\ rv' = Some(Slice2D_next_advance(Unwrap(rv)))
    /\ nexts' = IF nexts <= MaxNexts + 1 THEN nexts + 1 ELSE MaxNexts + 1
    /\ UNCHANGED <<buf, mv, down, base, overflow_checks>>

\* ---- reads through the mutable view ----
Do_get_m(i) ==
    /\ ~halted
    /\ IsSome(mv)
    /\ Returns("get_m", i, 0, 0, Slice2DMut_get(Unwrap(mv), i))
    /\ UNCHANGED <<buf, rv, mv, down, base, nexts, exhausted, overflow_checks>>

Do_index_m(i) ==
    /\ ~halted
    /\ IsSome(mv)
    /\ Returns("index_m", i, 0, 0, Slice2DMut_index(Unwrap(mv), i))
    /\ UNCHANGED <<buf, rv, mv, down, base, nexts, exhausted, overflow_checks>>

\* ---- writes through the mutable view: row[k] = v ----
\* the exclusive borrow ends the life of a downgraded view
WriteRow(op, i, k, v, r) ==
    /\ buf' = IF r.kind = "Some" THEN [buf EXCEPT ![r.lo + k + 1] = v] ELSE buf
    /\ Returns(op, i, k, v,
               IF r.kind = "Some" THEN [r EXCEPT !.row[k + 1] = v] ELSE r)
    /\ down' = None
    /\ UNCHANGED <<rv, mv, base, nexts, exhausted, overflow_checks>>

Do_get_mut(i, k, v) ==
    /\ ~halted
    /\ IsSome(mv)
    /\ k < Unwrap(mv).len
    /\ WriteRow("get_mut", i, k, v, Slice2DMut_get_mut(Unwrap(mv), i))

Do_index_mut(i, k, v) ==
    /\ ~halted
    /\ IsSome(mv)
    /\ k < Unwrap(mv).len
    /\ WriteRow("index_mut", i, k, v, Slice2DMut_index_mut(Unwrap(mv), i))

\* ---- downgrade, and reads through the downgraded view ----
Do_downgrade ==
    /\ ~halted
    /\ IsSome(mv)
    /\ down' = Some(Slice2DMut_downgrade(Unwrap(mv)))
    /\ Returns("downgrade", 0, 0, 0, [OutNone EXCEPT !.kind = "Some"])
    /\ UNCHANGED <<buf, rv, mv, base, nexts, exhausted, overflow_checks>>

Do_down_get(i) ==
    /\ ~halted
    /\ IsSome(down)
    /\ Returns("down_get", i, 0, 0, Slice2D_get(Unwrap(down), i))
    /\ UNCHANGED <<buf, rv, mv, down, base, nexts, exhausted, overflow_checks>>

Do_down_index(i) ==
    /\ ~halted
    /\ IsSome(down)
    /\ Returns("down_index", i, 0, 0, Slice2D_index(Unwrap(down), i))
    /\ UNCHANGED <<buf, rv, mv, down, base, nexts, exhausted, overflow_checks>>

Next ==
    \/ \E l \in Lens, s \in Strides : Do_slice2d(l, s)
    \/ \E l \in Lens, s \in Strides : Do_slice2d_mut(l, s)
    \/ \E x \in Xs, y \in Lens : Do_get_slice2d(x, y)
    \/ \E x \in Xs, y \in Lens : Do_get_slice2d_mut(x, y)
    \/ Do_drop
    \/ \E i \in Indices : Do_get(i)
    \/ \E i \in Indices : Do_index(i)
    \/ Do_next
    \/ \E i \in Indices : Do_get_m(i)
    \/ \E i \in Indices : Do_index_m(i)
    \/ \E i \in Indices, k \in 0..(MaxLen - 1), v \in WriteVals : Do_get_mut(i, k, v)
    \/ \E i \in Indices, k \in 0..(MaxLen - 1), v \in WriteVals : Do_index_mut(i, k, v)
    \/ Do_downgrade
    \/ \E i \in Indices : Do_down_get(i)
    \/ \E i \in Indices : Do_down_index(i)

Spec == Init /\ [][Next]_vars

TypeOK ==
    /\ Len(buf) <= MaxBuf
    /\ nexts \in 0..(MaxNexts + 2)
    /\ out.kind \in {"Some", "None", "Panic"}
    /\ ~(IsSome(rv) /\ IsSome(mv))
    /\ IsSome(down) => IsSome(mv)

\* ---- the same calls with indices and dimensions from all of usize ----
AllIndices == Indices \cup WideIndices
AllXs == Xs \cup WideIndices

NextWide ==
    \/ \E l \in Lens, s \in Strides : Do_slice2d(l, s)
    \/ \E l \in Lens, s \in Strides : Do_slice2d_mut(l, s)
    \/ \E x \in AllXs, y \in Lens : Do_get_slice2d(x, y)
    \/ \E x \in AllXs, y \in Lens : Do_get_slice2d_mut(x, y)
    \/ Do_drop
    \/ \E i \in AllIndices : Do_get(i)
    \/ \E i \in AllIndices : Do_index(i)
    \/ Do_next
    \/ \E i \in AllIndices : Do_get_m(i)
    \/ \E i \in AllIndices : Do_index_m(i)
    \/ \E i \in AllIndices, k \in 0..(MaxLen - 1), v \in WriteVals : Do_get_mut(i, k, v)
    \/ \E i \in AllIndices, k \in 0..(MaxLen - 1), v \in WriteVals : Do_index_mut(i, k, v)
    \/ Do_downgrade
    \/ \E i \in AllIndices : Do_down_get(i)
    \/ \E i \in AllIndices : Do_down_index(i)

SpecWide == InitWide /\ [][NextWide]_vars

\* ---- a caller that builds one view and then drives it as an iterator ----
NextIter ==
    \/ \E l \in Lens, s \in Strides : Do_slice2d(l, s)
    \/ \E x \in Xs, y \in Lens : Do_get_slice2d(x, y)
    \/ Do_next

\* the caller keeps calling: a call to next() always returns
SpecIter == Init /\ [][NextIter]_vars /\ WF_vars(NextIter)

\* ---- what the claims speak of ----
\* the view a row call went through
ViewOf(op) ==
    IF op \in {"get", "index"} THEN Unwrap(rv)
    ELSE IF op \in {"down_get", "down_index"} THEN Unwrap(down)
    ELSE Unwrap(mv)
CheckedOps == {"get", "get_m", "get_mut", "down_get"}
TrustedOps == {"index", "index_m", "index_mut", "down_index"}
ValidatedOps == {"get_slice2d", "get_slice2d_mut"}
\* the view a validated construction left in use
Built == IF call.op = "get_slice2d" THEN rv ELSE mv
\* elements B[from .. from + n) of the backing buffer, counted from 0
Region(from, n) == [j \in 1..n |-> buf[from + j]]

\* C1: get_slice2d(x, y) and get_slice2d_mut(x, y) return a view if and only
\* if the buffer length equals x * y; on any other (x, y) both return None,
\* and on success the view is the one slice2d(y, y) / slice2d_mut(y, y)
\* builds: row length y, stride y, the whole buffer.
C1_ValidatedConstruction ==
    call.op \in ValidatedOps =>
        /\ (out.kind = "Some") <=> (Len(buf) = call.a * call.b)
        /\ Len(buf) # call.a * call.b =>
               out.kind = "None" /\ rv = None /\ mv = None /\ ~halted
        /\ out.kind = "Some" =>
               /\ Built = Some([stride |-> call.b, len |-> call.b,
                                slice |-> [off |-> 0, n |-> Len(buf)]])
               /\ call.op = "get_slice2d" => rv = Some(slice2d(call.b, call.b))
               /\ call.op = "get_slice2d_mut" => mv = Some(slice2d_mut(call.b, call.b))

C1_Witness ==
    /\ call.op = "get_slice2d_mut"
    /\ out.kind = "Some"
    /\ call.a = 2
    /\ call.b = 2
    /\ IsSome(mv)

\* the rows of a view fresh from validated construction with (x, y)
C2_Rows(x, y) ==
    \A i \in Indices :
        LET g == IF call.op = "get_slice2d"
                 THEN Slice2D_get(Unwrap(rv), i)
                 ELSE Slice2DMut_get(Unwrap(mv), i)
            t == IF call.op = "get_slice2d"
                 THEN Slice2D_index(Unwrap(rv), i)
                 ELSE Slice2DMut_index(Unwrap(mv), i)
        IN  /\ i < x => /\ g.kind = "Some"
                        /\ g.row = Region(i * y, y)
                        /\ t = g
            /\ i >= x => g.kind = "None" /\ t.kind = "Panic"

\* C2 as stated: whenever the buffer length is width * height, validated
\* construction succeeds and the view has exactly `width` rows of `height`
\* elements: a row for every i < width, no row for any i >= width.
C2_ExactlyWidthRows ==
    (call.op \in ValidatedOps /\ Len(buf) = call.a * call.b) =>
        out.kind = "Some" /\ C2_Rows(call.a, call.b)

\* C2 as amended: the same for height >= 1. (With height 0 the buffer is
\* empty and every index yields an empty row.)
C2_ExactlyWidthRowsPositiveHeight ==
    (call.op \in ValidatedOps /\ Len(buf) = call.a * call.b) =>
        /\ out.kind = "Some"
        /\ call.b >= 1 => C2_Rows(call.a, call.b)

C2_Witness ==
    /\ call.op = "get_slice2d"
    /\ out.kind = "Some"
    /\ IsSome(rv)
    /\ call.a = 2
    /\ call.b = 2
    /\ Slice2D_get(Unwrap(rv), 1).row = <<3, 4>>
    /\ Slice2D_get(Unwrap(rv), 2).kind = "None"

\* C3: get(i) on a view with row length L and stride S over buffer B returns
\* the region [i*S, i*S + L) when i*S + L <= B.length, so row(i)[k] is
\* B[i*S + k] for every k < L, and returns None, without aborting, for every
\* i with i*S + L > B.length. Same for Slice2DMut::get and get_mut.
C3_CheckedLookup ==
    call.op \in CheckedOps =>
        LET v == ViewOf(call.op)
            origin == call.a * v.stride
        IN  /\ origin + v.len <= v.slice.n =>
                /\ out.kind = "Some"
                /\ out.lo = v.slice.off + origin
                /\ Len(out.row) = v.len
                /\ \A k \in 0..(v.len - 1) :
                       out.row[k + 1] = buf[v.slice.off + origin + k + 1]
                /\ ~halted
            /\ origin + v.len > v.slice.n => out.kind = "None" /\ ~halted

C3_Witness ==
    /\ call.op = "get"
    /\ IsSome(rv)
    /\ call.a >= 1
    /\ out.kind = "Some"
    /\ Unwrap(rv).len = 2
    /\ Unwrap(rv).stride = 3
    /\ out.row = <<4, 5>>

\* what the checked lookup gives for the row a trusted call asked for
CheckedTwin ==
    IF call.op = "index" THEN Slice2D_get(Unwrap(rv), call.a)
    ELSE IF call.op = "down_index" THEN Slice2D_get(Unwrap(down), call.a)
    ELSE IF call.op = "index_m" THEN Slice2DMut_get(Unwrap(mv), call.a)
    ELSE Slice2DMut_get_mut(Unwrap(mv), call.a)

C4_Returned ==
    call.op \in TrustedOps =>
        LET v == ViewOf(call.op)
            g == CheckedTwin
        IN  /\ g.kind = "Some" => out = g /\ ~halted
            /\ g.kind = "None" => out.kind = "Panic" /\ halted
            /\ out.kind = "Some" =>
                   /\ out.lo = v.slice.off + call.a * v.stride
                   /\ Len(out.row) = v.len
                   /\ out.lo + Len(out.row) <= Len(buf)

\* the cells of the backing buffer outside row call.a' keep their value
C4_WroteInsideRow ==
    call'.op = "index_mut" =>
        LET v == Unwrap(mv)
            lo == v.slice.off + call'.a * v.stride
        IN  /\ Len(buf') = Len(buf)
            /\ \A p \in 1..Len(buf) :
                   (p <= lo \/ p > lo + v.len) => buf'[p] = buf[p]

\* C4: view[i] (Slice2D, Slice2DMut, and mutable on Slice2DMut) returns the
\* same row region as get(i) whenever get(i) is present and halts with a
\* fatal bounds failure whenever get(i) is absent; it never returns or
\* writes an element outside [i*stride, i*stride + row_length).
C4_TrustedIndex == []C4_Returned /\ [][C4_WroteInsideRow]_vars

C4_Witness ==
    /\ call.op = "index_mut"
    /\ out.kind = "Some"
    /\ IsSome(mv)
    /\ call.a >= 1
    /\ call.b >= 1
    /\ Unwrap(mv).stride > Unwrap(mv).len

\* ---- iteration ----
\* elements left from the origin of row j of the un-iterated view
Remaining(j) ==
    LET S == Unwrap(base).stride
    IN  IF j * S <= Len(buf) THEN Len(buf) - j * S ELSE 0

\* the call that just returned was call number nexts' on a fresh view
C5_InOrder ==
    (call'.op = "next" /\ nexts' <= MaxNexts) =>
        LET j == nexts' - 1
            L == Unwrap(base).len
            S == Unwrap(base).stride
        IN  /\ Remaining(j) >= L =>
                out'.kind = "Some" /\ out'.row = Region(j * S, L)
            /\ Remaining(j) < L => out'.kind = "None"

C5_Sticky == (call'.op = "next" /\ exhausted) => out'.kind = "None"

\* C5: next() on a fresh Slice2D with row length L and stride S over B yields
\* B[0:L], B[S:S+L], B[2S:2S+L], ... while at least L elements remain from
\* the row origin; the first call with fewer than L remaining returns None,
\* and so does every later call.
C5_RowsInOrderThenNone == [][C5_InOrder /\ C5_Sticky]_vars

C5_Witness ==
    /\ call.op = "next"
    /\ IsSome(base)
    /\ Unwrap(base).len = 2
    /\ Unwrap(base).stride = 3
    /\ Len(buf) = 5
    /\ nexts = 3
    /\ out.kind = "None"
    /\ exhausted

\* C6: writing v into element k of the row from get_mut(i) or mutable
\* view[i] and then reading element k of get(i) or view[i] through the same
\* Slice2DMut returns v.
C6_WriteThenRead ==
    (call.op \in {"get_mut", "index_mut"} /\ out.kind = "Some") =>
        LET g == Slice2DMut_get(Unwrap(mv), call.a)
            t == Slice2DMut_index(Unwrap(mv), call.a)
        IN  /\ g.kind = "Some"
            /\ g.row[call.b + 1] = call.c
            /\ t.kind = "Some"
            /\ t.row[call.b + 1] = call.c

C6_Witness ==
    /\ call.op = "get_mut"
    /\ out.kind = "Some"
    /\ IsSome(mv)
    /\ call.a >= 1
    /\ call.b >= 1
    /\ Slice2DMut_get(Unwrap(mv), call.a).row[call.b + 1] = call.c

\* reads through the downgraded view and through the mutable view agree
C7_ReadsAgree ==
    IsSome(down) =>
        /\ IsSome(mv)
        /\ Unwrap(down).stride = Unwrap(mv).stride
        /\ Unwrap(down).len = Unwrap(mv).len
        /\ Unwrap(down).slice = Unwrap(mv).slice
        /\ \A i \in Indices :
               /\ Slice2D_get(Unwrap(down), i) = Slice2DMut_get(Unwrap(mv), i)
               /\ Slice2D_index(Unwrap(down), i) = Slice2DMut_index(Unwrap(mv), i)

C7_LeavesMutableView ==
    call'.op = "downgrade" => (mv' = mv /\ buf' = buf /\ IsSome(down'))

\* C7: downgrade() gives a Slice2D with the same stride, row length and
\* buffer, so get(i) / view[i] through it give what the mutable view gives
\* (same row or same absence); downgrade leaves the mutable view unchanged.
C7_DowngradeAgrees == []C7_ReadsAgree /\ [][C7_LeavesMutableView]_vars

C7_Witness ==
    /\ call.op = "down_get"
    /\ out.kind = "Some"
    /\ IsSome(down)
    /\ call.a >= 1
    /\ \E k \in 1..Len(out.row) : out.row[k] \in WriteVals
    /\ Unwrap(down).stride > Unwrap(down).len

\* get(i) / view[i] on the iterated view against row i + nexts of its
\* un-iterated copy
C8_Shifted ==
    \A i \in Indices :
        LET g == Slice2D_get(Unwrap(rv), i)
            t == Slice2D_index(Unwrap(rv), i)
            g0 == Slice2D_get(Unwrap(base), i + nexts)
            t0 == Slice2D_index(Unwrap(base), i + nexts)
        IN  /\ g.kind = g0.kind /\ g.row = g0.row
            /\ t.kind = t0.kind /\ t.row = t0.row
            /\ exhausted => g.kind = "None" /\ t.kind = "Panic"

\* C8 as stated: after k calls to next(), get(i) and view[i] on the same view
\* return what the un-iterated view returned for row i + k, and are absent /
\* fatal once the cursor is exhausted.
C8_IterationShiftsLookup ==
    (IsSome(rv) /\ nexts <= MaxNexts) => C8_Shifted

\* C8 as amended: the same for every view with row length >= 1 or with
\* k * stride <= buffer length. (With row length 0, once the cursor has been
\* clamped to empty, row 0 is an empty row though the un-iterated view has
\* no row k.)
C8_IterationShiftsLookupUnclamped ==
    (/\ IsSome(rv)
     /\ nexts <= MaxNexts
     /\ Unwrap(rv).len >= 1 \/ nexts * Unwrap(rv).stride <= Len(buf))
    => C8_Shifted

C8_Witness ==
    /\ call.op = "get"
    /\ IsSome(rv)
    /\ nexts = 1
    /\ call.a = 1
    /\ out.kind = "Some"
    /\ Unwrap(rv).len >= 1
    /\ Unwrap(rv).stride >= 1
    /\ out = [Slice2D_get(Unwrap(base), 2) EXCEPT !.kind = "Some"]

\* ---- overflow ----
\* C9: the addressing arithmetic never wraps into a region that looks in
\* bounds: for every index i whose true i*stride + row_length exceeds the
\* buffer length, get / get_mut / view[i] hand out no row; for every (x, y)
\* whose true product differs from the buffer length, get_slice2d and
\* get_slice2d_mut hand out no view.
C9_NoSilentWrap ==
    /\ call.op \in CheckedOps \cup TrustedOps =>
           LET v == ViewOf(call.op)
           IN  call.a * v.stride + v.len > v.slice.n => out.kind # "Some"
    /\ call.op \in ValidatedOps =>
           (call.a * call.b # Len(buf) => out.kind # "Some")

\* ---- termination ----
C10_ReturnedNone == call.op = "next" /\ out.kind = "None"

\* C10 as stated: for every Slice2D built by slice2d(len, stride) or
\* get_slice2d(x, y), row length 0 and stride 0 included, repeated next()
\* eventually returns None.
C10_IterationEnds == [](IsSome(rv) => <>C10_ReturnedNone)

\* the views whose rows never run out: empty rows, or a cursor that does not
\* move while a whole row is left
C10_Endless(v) == v.len = 0 \/ (v.stride = 0 /\ v.len <= v.slice.n)

\* C10 as amended: repeated next() eventually returns None unless the row
\* length is 0, or the stride is 0 and the buffer holds a whole row; those
\* views yield rows forever.
C10_IterationEndsUnlessDegenerate ==
    []((IsSome(rv) /\ ~C10_Endless(Unwrap(rv))) => <>C10_ReturnedNone)

C10_Witness ==
    /\ C10_ReturnedNone
    /\ IsSome(base)
    /\ Unwrap(base).len = 2
    /\ Unwrap(base).stride = 3
    /\ Len(buf) = 5
    /\ nexts = 3
====
